---- MODULE Spec2Model ----
(***************************************************************************)
(* A model of the page generators of the vulnerability database site:      *)
(* generateVulnerabilityPages, generateRegoPolicyPages (src/main.go) and   *)
(* generateKubeHunterPages (src/docGen/kubehunter.go), and of the per-year *)
(* fan-out of generateVulnPages.                                           *)
(*                                                                         *)
(* Text is a sequence of tokens.  A token is one character of a field      *)
(* value ("a", "b", a quote, a backslash, a newline), or one literal chunk *)
(* of a template, or the sentinel line Marker, which strings.Split treats  *)
(* as a unit (the marker cannot overlap itself).                           *)
(***************************************************************************)
EXTENDS Integers, Sequences, FiniteSets, TLC

\* Files of one input directory.
MaxFiles == 2
\* Passes of a generator over the same input (the first run and the re-runs).
MaxRuns == 2
\* Years of generateVulnPages (the code lists 22), and files of one year.
NumYears == 2
MaxYearFiles == 1
\* The longest file content GetCustomContentFromMarkdown is called on, in tokens.
MaxLen == 4

Marker == "<!--- Add Aqua content below --->"
Quote == "\""
Backslash == "\\"
NL == "\n"
\* What a directory holds at a path where there is no file (no content is this text).
NoFile == <<"ENOENT">>

------------------------------------------------------------------------------
(* package strings *)

IsSpace(c) == c \in {NL, " "}

\* strings.TrimSpace: from the first to the last token that is not white space.
TrimSpace(s) ==
  LET keep == {i \in 1..Len(s) : ~IsSpace(s[i])}
  IN IF keep = {} THEN <<>>
     ELSE SubSeq(s, CHOOSE i \in keep : \A j \in keep : i <= j,
                    CHOOSE i \in keep : \A j \in keep : j <= i)

\* strings.Split(s, sep) for a one-token separator: the pieces between the
\* occurrences of sep, one more than there are occurrences.
Split(s, sep) ==
  LET at == {i \in 1..Len(s) : s[i] = sep}
      n == Cardinality(at)
      pos(k) == CHOOSE i \in at : Cardinality({j \in at : j < i}) = k - 1
  IN [k \in 1..(n + 1) |->
        SubSeq(s, IF k = 1 THEN 1 ELSE pos(k - 1) + 1,
                  IF k = n + 1 THEN Len(s) ELSE pos(k) - 1)]

\* strings.NewReplacer(c1, "", c2, "", ...).Replace(s): the tokens of drop removed.
Remove(s, drop) == SelectSeq(s, LAMBDA c : c \notin drop)

\* strings.Contains
Contains(s, sub) ==
  \E i \in 0..(Len(s) - Len(sub)) : SubSeq(s, i + 1, i + Len(sub)) = sub

HasPrefix(s, p) == Len(p) <= Len(s) /\ SubSeq(s, 1, Len(p)) = p

\* The pieces ss[lo..hi] joined.
RECURSIVE ConcatRange(_, _, _)
ConcatRange(ss, lo, hi) ==
  IF lo > hi THEN <<>>
  ELSE IF lo = hi THEN ss[lo]
  ELSE LET mid == (lo + hi) \div 2
       IN ConcatRange(ss, lo, mid) \o ConcatRange(ss, mid + 1, hi)

Concat(ss) == ConcatRange(ss, 1, Len(ss))

\* A string field inside a template or a path: an absent value prints nothing.
Str(v) == IF v = "" THEN <<>> ELSE <<v>>

------------------------------------------------------------------------------
(* package time, as far as ParseVulnerabilityJSONFile uses it.  A timestamp *)
(* text "2020-01-08T19:15Z" is <<date, n1, n2>>; a layout names the field   *)
(* each of the three positions is read into or printed from.                *)

ZeroTime == [date |-> "0001-01-01", hour |-> "00", minute |-> "00", second |-> "00"]

\* "2006-01-02T04:05Z": 04 is the minute and 05 the second.
ParseLayout == <<"date", "minute", "second">>
\* "2006-01-02T15:04Z": 15 is the hour and 04 the minute.
PrintLayout == <<"date", "hour", "minute">>

\* time.Parse: an error leaves the zero time (the code drops the error).
TimeParse(layout, text) ==
  IF Len(text) # Len(layout) THEN ZeroTime
  ELSE [f \in DOMAIN ZeroTime |->
          IF \E i \in 1..Len(layout) : layout[i] = f
          THEN text[CHOOSE i \in 1..Len(layout) : layout[i] = f]
          ELSE ZeroTime[f]]

TimeFormat(layout, t) == [i \in 1..Len(layout) |-> t[layout[i]]]

\* The 12-hour clock of the layout element 03.
Hour12(h) ==
  CASE h = "00" -> "12"
    [] h = "19" -> "07"
    [] OTHER -> h

\* Format("2006-01-02 03:04:05 -0700") of a UTC time.
TimeFormatPostDate(t) == <<t.date, Hour12(t.hour), t.minute, t.second, "+0000">>

------------------------------------------------------------------------------
(* The CWE lookup directory: one JSON file per weakness.  "typeerror" is a *)
(* file of valid JSON one of whose fields has the wrong type: json.Unmarshal*)
(* fills the other fields and returns an error.                            *)

EmptyWeakness ==
  [Name |-> "", Description |-> "", ExtendedDescription |-> <<>>,
   Consequence |-> <<>>, Mitigation |-> <<>>, RelatedAttackPattern |-> <<>>]

Weakness79 ==
  [Name |-> "Cross-site Scripting", Description |-> "Improper neutralization",
   ExtendedDescription |-> <<"ext">>,
   Consequence |-> << [Scope |-> "[Integrity]", Impact |-> "[Execute Code]"] >>,
   Mitigation |-> << [Description |-> <<"encode output">>] >>,
   RelatedAttackPattern |-> << [CAPECID |-> "63"] >>]

CWEIDs == {"CWE-79", "CWE-20", "CWE-89", "NVD-CWE-Other"}

cweDir ==
  [id \in CWEIDs |->
     CASE id = "CWE-79" -> [json |-> "ok", w |-> Weakness79]
       [] id = "CWE-20" -> [json |-> "syntaxerror", w |-> EmptyWeakness]
       [] id = "CWE-89" -> [json |-> "typeerror",
                            w |-> [EmptyWeakness EXCEPT !.Name = "SQL Injection"]]
       [] OTHER -> [json |-> "absent", w |-> EmptyWeakness]]

------------------------------------------------------------------------------
(* An NVD input file.  json = FALSE is a file that is unreadable or is not *)
(* JSON; a field that is absent from the JSON reads as the empty string.   *)

BaseVuln ==
  [json |-> TRUE, ID |-> "CVE-2020-0001",
   description |-> <<"a", Quote, Backslash, "b">>,
   CWEID |-> "CWE-79",
   references |-> << <<"u">> >>,
   publishedDate |-> <<"2020-01-08", "19", "15">>,
   lastModifiedDate |-> <<"2020-01-09", "00", "00">>,
   V2Vector |-> "AV:N/AC:L", V2Score |-> "7.5", V3Vector |-> "", V3Score |-> "0"]

VulnIDs == {"CVE-2020-0001", "CVE-2020-0002", ""}

\* The input files a directory is drawn from: BaseVuln with one field changed.
VulnFiles ==
  {[BaseVuln EXCEPT !.json = FALSE]}
  \cup {[BaseVuln EXCEPT !.ID = id] : id \in VulnIDs}
  \cup {[BaseVuln EXCEPT !.description = d] : d \in {<<"a", Marker, "b">>}}
  \cup {[BaseVuln EXCEPT !.CWEID = c] : c \in CWEIDs}
  \cup {[BaseVuln EXCEPT !.references = <<>>]}
  \cup {[BaseVuln EXCEPT !.publishedDate = <<"2020-01-08", "00", "00">>]}

\* fastjson's Value.String() of a JSON string: the string as JSON text.
JSONEscape(c) ==
  CASE c = Quote -> <<Backslash, Quote>>
    [] c = Backslash -> <<Backslash, Backslash>>
    [] c = NL -> <<Backslash, "n">>
    [] OTHER -> <<c>>

JSONString(s) == <<Quote>> \o Concat([i \in 1..Len(s) |-> JSONEscape(s[i])]) \o <<Quote>>

ParseVulnerabilityJSONFile(f) ==
  IF ~f.json THEN [err |-> TRUE]
  ELSE
    LET publishedDate == TimeParse(ParseLayout, f.publishedDate)
        modifiedDate == TimeParse(ParseLayout, f.lastModifiedDate)
        vuln == [ID |-> f.ID,
                 CWEID |-> f.CWEID,
                 CWEInfo |-> EmptyWeakness,
                 Description |-> Remove(f.description, {Quote, Backslash}),
                 References |-> [i \in 1..Len(f.references) |->
                                   Remove(JSONString(f.references[i]), {Quote})],
                 CVSS |-> [V2Vector |-> f.V2Vector, V2Score |-> f.V2Score,
                           V3Vector |-> f.V3Vector, V3Score |-> f.V3Score],
                 Dates |-> [Published |-> TimeFormat(PrintLayout, publishedDate),
                            Modified |-> TimeFormat(PrintLayout, modifiedDate)]]
    IN [err |-> FALSE,
        Layout |-> "vulnerability",
        Title |-> vuln.ID,
        By |-> "NVD",
        Date |-> TimeFormatPostDate(publishedDate),
        Vulnerability |-> vuln]

\* json.Unmarshal into w: what w holds afterwards, and whether it failed.
Unmarshal(file) ==
  CASE file.json = "ok" -> [err |-> FALSE, w |-> file.w]
    [] file.json = "typeerror" -> [err |-> TRUE, w |-> file.w]
    [] OTHER -> [err |-> TRUE, w |-> EmptyWeakness]

\* A slip AddCWEInformation could make: decode straight into the record.
AddCWEInformationInPlace(bp, dir) ==
  IF bp.Vulnerability.CWEID \notin DOMAIN dir \/ dir[bp.Vulnerability.CWEID].json = "absent"
  THEN bp
  ELSE [bp EXCEPT !.Vulnerability.CWEInfo = Unmarshal(dir[bp.Vulnerability.CWEID]).w]

AddCWEInformation(bp, dir) ==
  IF bp.Vulnerability.CWEID \notin DOMAIN dir \/ dir[bp.Vulnerability.CWEID].json = "absent"
  THEN bp
  ELSE LET u == Unmarshal(dir[bp.Vulnerability.CWEID])
       IN IF u.err THEN bp ELSE [bp EXCEPT !.Vulnerability.CWEInfo = u.w]

------------------------------------------------------------------------------
(* text/template *)

CWEInfoSections(w) ==
     (IF w.Name # "" THEN <<"#### Title", w.Name>> ELSE <<>>)
  \o (IF w.Description # "" THEN <<"#### Description", w.Description>> ELSE <<>>)
  \o (IF w.ExtendedDescription # <<>>
      THEN <<"#### Extended Description">> \o w.ExtendedDescription ELSE <<>>)
  \o (IF w.Consequence # <<>>
      THEN <<"#### Common Consequences">>
           \o Concat([i \in 1..Len(w.Consequence) |->
                        <<"Scope: ", w.Consequence[i].Scope,
                          "Impact: ", w.Consequence[i].Impact>>])
      ELSE <<>>)
  \o (IF w.Mitigation # <<>>
      THEN <<"#### Potential Mitigations">>
           \o Concat([i \in 1..Len(w.Mitigation) |->
                        Concat([j \in 1..Len(w.Mitigation[i].Description) |->
                                  <<"- ", w.Mitigation[i].Description[j]>>])])
      ELSE <<>>)
  \o (IF w.RelatedAttackPattern # <<>>
      THEN <<"#### Related Attack Patterns">>
           \o Concat([i \in 1..Len(w.RelatedAttackPattern) |->
                        <<"- https://cwe.mitre.org/data/definitions/",
                          w.RelatedAttackPattern[i].CAPECID, ".html">>])
      ELSE <<>>)

ReferencesSection(refs) ==
  <<"### References">> \o Concat([i \in 1..Len(refs) |-> <<"- ">> \o refs[i]])

vulnerabilityPostTemplate(blog) ==
     <<"---", "title: ", Quote>> \o Str(blog.Title) \o <<Quote, "date: ">> \o blog.Date
  \o <<"draft: false", "---", "### Description">> \o blog.Vulnerability.Description
  \o CWEInfoSections(blog.Vulnerability.CWEInfo)
  \o <<"### CVSS", "| V2 | ">> \o Str(blog.Vulnerability.CVSS.V2Vector)
  \o <<" | ", blog.Vulnerability.CVSS.V2Score>>
  \o <<"| V3 | ">> \o Str(blog.Vulnerability.CVSS.V3Vector)
  \o <<" | ", blog.Vulnerability.CVSS.V3Score>>
  \o <<"### Dates", "- Published: ">> \o blog.Vulnerability.Dates.Published
  \o <<"- Modified: ">> \o blog.Vulnerability.Dates.Modified
  \o ReferencesSection(blog.Vulnerability.References)
  \o <<Marker>>

------------------------------------------------------------------------------
(* The output directory: a path maps to the file's content, or to NoFile.  *)

\* A slip the path could make: the title left out of the file name.
OutputPathNoTitle(postsDir, title) == <<postsDir, ".md">>

\* filepath.Join(postsDir, fmt.Sprintf("%s.md", title))
OutputPath(postsDir, title) == <<postsDir>> \o title \o <<".md">>

\* os.OpenFile(name, O_RDWR|O_CREATE): an absent file is created empty, an
\* existing one is opened as it is.
OpenFile(fs, name) == IF fs[name] = NoFile THEN [fs EXCEPT ![name] = <<>>] ELSE fs

\* os.Create(name): created or truncated.
Create(fs, name) == [fs EXCEPT ![name] = <<>>]

\* ioutil.ReadFile with the error dropped: a missing file reads as "".
ReadFile(fs, name) == IF fs[name] = NoFile THEN <<>> ELSE fs[name]

Truncate(fs, name) == IF fs[name] = NoFile THEN fs ELSE [fs EXCEPT ![name] = <<>>]

\* A write of data at offset off of a file: bytes beyond the write stay.
WriteAt(content, off, data) ==
  SubSeq(content, 1, off) \o data \o SubSeq(content, off + Len(data) + 1, Len(content))

GetCustomContentFromMarkdown(fs, fileName) ==
  LET content == Split(ReadFile(fs, fileName), Marker)
  IN IF Len(content) <= 1 THEN <<>> ELSE TrimSpace(content[2])

\* The file's content after t.Execute and the WriteString, both through a
\* handle opened at offset 0.
VulnerabilityPostToMarkdown(blog, content, customContent) ==
  WriteAt(content, 0,
          vulnerabilityPostTemplate(blog)
            \o (IF customContent # <<>> THEN <<NL>> \o customContent ELSE <<>>))

------------------------------------------------------------------------------
(* A file of the policy directory: its name, whether it can be read, its   *)
(* leading comment lines and whether "package main" occurs in it.          *)

MetaLine(key, val) == <<"#", " ", "@", key, ":", " ">> \o Str(val)

BaseRego ==
  [name |-> <<"a", ".", "rego">>, readable |-> TRUE,
   meta |-> <<MetaLine("id", "KSV001"), MetaLine("Title", "Privileged"),
              MetaLine("description", "d"), MetaLine("severity", "HIGH"),
              <<"#", " ", "no key here">> >>,
   package |-> TRUE,
   policy |-> <<"package main", NL, "deny", NL>>]

RegoFiles ==
  {BaseRego,
   [BaseRego EXCEPT !.name = <<"b", ".", "rego">>, !.meta[1] = MetaLine("id", "KSV002")],
   [BaseRego EXCEPT !.name = <<"c", ".", "rego">>, !.meta = Tail(BaseRego.meta)],
   [BaseRego EXCEPT !.name = <<"d", ".", "rego">>, !.package = FALSE,
                    !.policy = <<"deny", NL>>],
   [BaseRego EXCEPT !.name = <<"e", ".", "rego">>, !.readable = FALSE],
   [BaseRego EXCEPT !.name = <<"a", "_test", ".", "rego">>]}

\* The names of dir that contain include and do not contain exclude.
GetAllFilesOfKind(dir, include, exclude) ==
  SelectSeq(dir, LAMBDA f : Contains(f.name, <<include>>) /\ ~Contains(f.name, <<exclude>>))

\* strings.Index for a one-token needle: 0-based, -1 when absent.
Index(s, tok) ==
  IF \E i \in 1..Len(s) : s[i] = tok
  THEN (CHOOSE i \in 1..Len(s) : s[i] = tok /\ \A j \in 1..(i - 1) : s[j] # tok) - 1
  ELSE -1

ToLower(tok) ==
  CASE tok = "Title" -> "title"
    [] tok = "ID" -> "id"
    [] OTHER -> tok

\* strings.SplitN(str, ":", 2)
SplitN2(str) ==
  LET i == Index(str, ":")
  IN IF i < 0 THEN <<str>> ELSE <<SubSeq(str, 1, i), SubSeq(str, i + 2, Len(str))>>

\* One metadata line of ParseRegoPolicyFile applied to the post so far.
RegoMetaLine(rp, line) ==
  LET kv == SplitN2(Remove(line, {"@", "#"}))
  IN IF Len(kv) < 2 THEN rp
     ELSE LET val == TrimSpace(kv[2])
              k == TrimSpace(kv[1])
              key == IF Len(k) = 1 THEN ToLower(k[1]) ELSE ""
          IN CASE key = "id" -> [rp EXCEPT !.Title = val]
               [] key = "description" -> [rp EXCEPT !.Rego.Description = val]
               [] key = "recommended_actions" -> [rp EXCEPT !.Rego.RecommendedActions = val]
               [] key = "severity" -> [rp EXCEPT !.Rego.Severity = val]
               [] key = "title" -> [rp EXCEPT !.Rego.ID = val]
               [] OTHER -> rp

RECURSIVE RegoMeta(_, _)
RegoMeta(rp, lines) ==
  IF lines = <<>> THEN rp ELSE RegoMeta(RegoMetaLine(rp, Head(lines)), Tail(lines))

\* The file's text: the comment lines, then the policy.
RegoText(f) == Concat([i \in 1..Len(f.meta) |-> f.meta[i] \o <<NL>>]) \o f.policy

\* panic: the slice rego[:idx] with idx = -1 (no "package main" in the file).
ParseRegoPolicyFile(f) ==
  IF ~f.readable THEN [err |-> TRUE, panic |-> FALSE]
  ELSE
    LET rego == RegoText(f)
        idx == Index(rego, "package main")
    IN IF idx < 0 THEN [err |-> FALSE, panic |-> TRUE]
       ELSE
         LET metadata == SubSeq(rego, 1, idx)
             rp == [err |-> FALSE, panic |-> FALSE,
                    Layout |-> "regoPolicy", By |-> "Aqua Security", Title |-> <<>>,
                    Date |-> <<"2020-07-13 19:43:21 +0000 UTC">>,
                    Rego |-> [ID |-> <<>>, Description |-> <<>>, Links |-> <<>>,
                              Severity |-> <<>>, RecommendedActions |-> <<>>,
                              Policy |-> TrimSpace(SubSeq(rego, idx + 1, Len(rego)))]]
         IN RegoMeta(rp, Split(metadata, NL))

regoPolicyPostTemplate(rp) ==
     <<"---", "title: ", Quote>> \o rp.Title \o <<Quote, "date: ">> \o rp.Date
  \o <<"draft: false", "---", "### ">> \o rp.Rego.ID
  \o <<"### Description">> \o rp.Rego.Description
  \o <<"### Severity">> \o rp.Rego.Severity
  \o <<"### Recommended Actions">> \o rp.Rego.RecommendedActions
  \o <<"### Rego Policy", "~~~">> \o rp.Rego.Policy \o <<"~~~">>
  \o <<"### Links">> \o Concat([i \in 1..Len(rp.Rego.Links) |-> <<"- ">> \o rp.Rego.Links[i]])
  \o <<NL>>

\* The file's content after t.Execute through a handle opened at offset 0.
RegoPostToMarkdown(rp, content) == WriteAt(content, 0, regoPolicyPostTemplate(rp))

------------------------------------------------------------------------------
(* A kube-hunter documentation page: its base name, whether it can be read *)
(* and its text.                                                           *)

KubeText(vid, title) ==
  <<"---", NL, "vid: ", vid, NL>> \o title
  \o <<"categories: ", "x", NL, "---", NL, "# {{ page.vid }} - {{ page.title }}", NL,
       "## Issue description", NL, "t", NL, "## Remediation", NL, "r", NL,
       "## References", NL, "l">>

BasePage ==
  [name |-> <<"KHV002", ".md">>, readable |-> TRUE,
   text |-> KubeText("KHV002", <<"title: ", "Kube", " ", "API", NL>>)]

KubePages ==
  {BasePage,
   [BasePage EXCEPT !.name = <<"KHV003", ".md">>,
                    !.text = KubeText("KHV003", <<"title: ", "Etcd", NL>>)],
   [BasePage EXCEPT !.name = <<"KHV004", ".md">>, !.text = KubeText("KHV004", <<>>)],
   [BasePage EXCEPT !.name = <<"KHV005", ".md">>, !.readable = FALSE]}

\* regexp "(?m)title: (.+)$": the first "title: " with text after it on its
\* line; the submatch is the rest of that line.  No match is nil.
TitleMatches(b) == {i \in 1..(Len(b) - 1) : b[i] = "title: " /\ b[i + 1] # NL}

RestOfLine(s) ==
  LET ends == {i \in 1..Len(s) : s[i] = NL}
  IN IF ends = {} THEN s
     ELSE SubSeq(s, 1, (CHOOSE i \in ends : \A j \in ends : i <= j) - 1)

FindSubmatch(b) ==
  IF TitleMatches(b) = {} THEN [nil |-> TRUE]
  ELSE LET i == CHOOSE i \in TitleMatches(b) : \A j \in TitleMatches(b) : i <= j
       IN [nil |-> FALSE, title |-> RestOfLine(SubSeq(b, i + 1, Len(b)))]

KubeHeader(title, id) ==
  <<"---", NL, "avd_page_type: avd_page", NL, "icon: kube-hunter", NL, "shortName: ">>
  \o title \o <<NL, "source: Kube Hunter", NL, "aliases: /kube-hunter/", id, NL,
                "category: misconfig", NL, "remediations: kubernetes", NL,
                "breadcrumbs: Kubernetes", NL, NL>>

\* strings.Replace(s, old, new, 1): the first occurrence only.
ReplaceFirst(s, old, new) ==
  LET i == Index(s, old)
  IN IF i < 0 THEN s ELSE SubSeq(s, 1, i) \o new \o SubSeq(s, i + 2, Len(s))

KubeReplacer(tok, title) ==
  CASE tok = "# {{ page.vid }} - {{ page.title }}" -> <<>>
    [] tok = "vid: " -> <<"id: ">>
    [] tok = "categories: " -> <<"types: ">>
    [] tok = "## Remediation" -> <<"### Recommended Actions">>
    [] tok = "## References" -> <<"### Links">>
    [] tok = "## Issue description" -> <<NL, "### ">> \o title
    [] OTHER -> <<tok>>

KubeContent(b, title, id) ==
  LET newContent == ReplaceFirst(b, "---", KubeHeader(title, id))
  IN Concat([i \in 1..Len(newContent) |-> KubeReplacer(newContent[i], title)])

\* ioutil.WriteFile: the file is created or truncated, then written.
WriteFile(fs, name, data) == [fs EXCEPT ![name] = data]

------------------------------------------------------------------------------
(* One generator pass over one directory, run again on the same input.     *)

VARIABLES
  call,      \* a call of GetCustomContentFromMarkdown on its own: position, argument, result
  gen,       \* the generator: "vuln", "rego" or "kube"
  files,     \* the input directory's listing
  posts,     \* the output directories: path -> content or NoFile
  idx,       \* the position of the generator's loop in the listing
  run,       \* the number of the pass (1 is the first run)
  status,    \* "running", "done", "panic" or "exit" (the process was ended)
  log,       \* history: what each iteration of each pass did
  firstOut,  \* history: posts when the first pass returned
  manual,    \* history: the text appended by hand to each output file
  mainpc,    \* generateVulnPages: where its goroutine is, and its loop's year
  wg,        \* generateVulnPages: the WaitGroup's counter
  workers,   \* generateVulnPages: the goroutine of each year
  openedBy   \* history: the years whose goroutine opened each output file

nvdPostsDir == "content/nvd"
regoPostsDir == "content/appshield"
kubePostsDir == "content/kube-hunter"
topLevelPath == <<kubePostsDir, "_index.md">>

RegoTitles == {<<>>, <<"KSV001">>, <<"KSV002">>}

Paths ==
  {OutputPath(nvdPostsDir, Str(id)) : id \in VulnIDs}
  \cup {OutputPath(regoPostsDir, t) : t \in RegoTitles}
  \cup {<<kubePostsDir>> \o p.name : p \in KubePages}
  \cup {topLevelPath}

\* What the environment does to one iteration's file operations.
IOOutcomes == {"ok", "open", "write"}

\* The text a person appends below the sentinel line.
ManualTexts == {<<"m">>, <<"m", NL>>, <<"m", Marker, "n">>}

\* The files generateRegoPolicyPages loops over; the others take them all.
Listing ==
  IF gen = "rego" THEN GetAllFilesOfKind(files, "rego", "_test") ELSE files

fanout == <<mainpc, wg, workers, openedBy>>

\* The environment disturbs a behaviour at most once: by one failing file
\* operation or by one manual edit.
Undisturbed ==
  /\ \A i \in 1..Len(log) : log[i].out \notin {"open-skip", "write-skip", "fatal"}
  /\ \A p \in Paths : manual[p] = <<>>

IOChoices == IF Undisturbed THEN IOOutcomes ELSE {"ok"}

\* A slip the loop could make: a parse error ends the pass.
AfterParseErrorReturn(i, n) == n + 1

\* After a parse error: continue with the next file.
AfterParseError(i, n) == i + 1

\* One iteration of generateVulnerabilityPages on file f.
VulnIteration(fs, f, io) ==
  LET bp0 == ParseVulnerabilityJSONFile(f)
  IN IF bp0.err THEN [fs |-> fs, out |-> "parse-skip", path |-> <<>>]
     ELSE
       LET bp == AddCWEInformation(bp0, cweDir)
           name == OutputPath(nvdPostsDir, Str(bp.Title))
           opened == OpenFile(fs, name)
           customContent == GetCustomContentFromMarkdown(opened, name)
           ready == IF customContent # <<>> THEN Truncate(opened, name) ELSE opened
       IN CASE io = "open" -> [fs |-> fs, out |-> "open-skip", path |-> name]
            [] io = "write" -> [fs |-> ready, out |-> "write-skip", path |-> name]
            [] OTHER ->
                 [fs |-> [ready EXCEPT ![name] =
                            VulnerabilityPostToMarkdown(bp, ready[name], customContent)],
                  out |-> "written", path |-> name]

\* One iteration of generateRegoPolicyPages on file f.
RegoIteration(fs, f, io) ==
  LET rp == ParseRegoPolicyFile(f)
  IN CASE rp.err -> [fs |-> fs, out |-> "parse-skip", path |-> <<>>]
       [] rp.panic -> [fs |-> fs, out |-> "panic", path |-> <<>>]
       [] OTHER ->
            LET name == OutputPath(regoPostsDir, rp.Title)
                created == Create(fs, name)
            IN CASE io = "open" -> [fs |-> fs, out |-> "open-skip", path |-> name]
                 [] io = "write" -> [fs |-> created, out |-> "write-skip", path |-> name]
                 [] OTHER ->
                      [fs |-> [created EXCEPT ![name] = RegoPostToMarkdown(rp, created[name])],
                       out |-> "written", path |-> name]

\* One iteration of generateKubeHunterPages on page: log.Fatalln ends the
\* process when the page cannot be written.
KubeIteration(fs, page, io) ==
  IF ~page.readable THEN [fs |-> fs, out |-> "parse-skip", path |-> <<>>]
  ELSE
    LET b == page.text
        id == ToLower(page.name[1])
        m == FindSubmatch(b)
        name == <<kubePostsDir>> \o page.name
    IN CASE m.nil -> [fs |-> fs, out |-> "panic", path |-> <<>>]
         [] io # "ok" -> [fs |-> fs, out |-> "fatal", path |-> name]
         [] OTHER -> [fs |-> WriteFile(fs, name, KubeContent(b, m.title, id)),
                      out |-> "written", path |-> name]

Step(r) ==
  /\ posts' = r.fs
  /\ log' = Append(log, [run |-> run, file |-> idx, out |-> r.out, path |-> r.path])
  /\ idx' = IF r.out = "parse-skip" THEN AfterParseError(idx, Len(Listing)) ELSE idx + 1
  /\ status' = CASE r.out = "panic" -> "panic"
                 [] r.out = "fatal" -> "exit"
                 [] OTHER -> status
  /\ UNCHANGED <<call, gen, files, run, firstOut, manual, fanout>>

generateVulnerabilityPages ==
  /\ gen = "vuln" /\ status = "running" /\ idx <= Len(Listing)
  /\ \E io \in IOChoices : Step(VulnIteration(posts, Listing[idx], io))

generateRegoPolicyPages ==
  /\ gen = "rego" /\ status = "running" /\ idx <= Len(Listing)
  /\ \E io \in IOChoices : Step(RegoIteration(posts, Listing[idx], io))

generateKubeHunterPages ==
  /\ gen = "kube" /\ status = "running" /\ idx <= Len(Listing)
  /\ \E io \in IOChoices : Step(KubeIteration(posts, Listing[idx], io))

\* The end of the loop of generateVulnerabilityPages and generateRegoPolicyPages.
Return ==
  /\ gen \in {"vuln", "rego"} /\ status = "running" /\ idx > Len(Listing)
  /\ status' = "done"
  /\ firstOut' = IF run = 1 THEN posts ELSE firstOut
  /\ UNCHANGED <<call, gen, files, posts, idx, run, log, manual, fanout>>

\* After the loop of generateKubeHunterPages: the top-level menu is written,
\* and fail() ends the process when it cannot be.
NewTopLevelMenu ==
  /\ gen = "kube" /\ status = "running" /\ idx > Len(Listing)
  /\ \E io \in IOChoices \ {"open"} :
       /\ posts' = IF io = "ok"
                   THEN WriteFile(posts, topLevelPath, <<"Kube Hunter Misconfiguration">>)
                   ELSE posts
       /\ status' = IF io = "ok" THEN "done" ELSE "exit"
       /\ log' = Append(log, [run |-> run, file |-> idx,
                              out |-> IF io = "ok" THEN "written" ELSE "fatal",
                              path |-> topLevelPath])
  /\ firstOut' = IF run = 1 THEN posts' ELSE firstOut
  /\ UNCHANGED <<call, gen, files, idx, run, manual, fanout>>

\* The program is run again on the same input.
Rerun ==
  /\ status = "done" /\ run < MaxRuns
  /\ run' = run + 1
  /\ idx' = 1
  /\ status' = "running"
  /\ UNCHANGED <<call, gen, files, posts, log, firstOut, manual, fanout>>

\* Between two runs a person appends text below the sentinel line of an
\* output file (adding the line where the page has none).
ManualEdit ==
  /\ status = "done" /\ run < MaxRuns
  /\ Undisturbed
  /\ \E p \in Paths, t \in ManualTexts :
       /\ posts[p] # NoFile
       /\ posts' = [posts EXCEPT ![p] =
                      @ \o (IF Contains(@, <<Marker>>) THEN <<>> ELSE <<NL, Marker>>)
                        \o <<NL>> \o t]
       /\ manual' = [manual EXCEPT ![p] = t]
       /\ log' = Append(log, [run |-> run, file |-> 0, out |-> "edit", path |-> p])
  /\ UNCHANGED <<call, gen, files, idx, run, status, firstOut, fanout>>

vars == <<call, gen, files, posts, idx, run, status, log, firstOut, manual,
          mainpc, wg, workers, openedBy>>

\* No call of GetCustomContentFromMarkdown on its own is under way.
NoCall == [pc |-> "none", fileName |-> <<>>, ret |-> <<>>]

Init ==
  /\ call = NoCall
  /\ gen \in {"vuln", "rego", "kube"}
  /\ files \in CASE gen = "vuln" -> [1..MaxFiles -> VulnFiles]
                 [] gen = "rego" -> [1..MaxFiles -> RegoFiles]
                 [] OTHER -> [1..MaxFiles -> KubePages]
  /\ posts = [p \in Paths |-> NoFile]
  /\ idx = 1
  /\ run = 1
  /\ status = "running"
  /\ log = <<>>
  /\ firstOut = [p \in Paths |-> NoFile]
  /\ manual = [p \in Paths |-> <<>>]
  /\ mainpc = [pc |-> "idle", i |-> 1]
  /\ wg = 0
  /\ workers = <<>>
  /\ openedBy = [p \in Paths |-> {}]

Next ==
  \/ generateVulnerabilityPages
  \/ generateRegoPolicyPages
  \/ generateKubeHunterPages
  \/ Return
  \/ NewTopLevelMenu
  \/ Rerun
  \/ ManualEdit

Spec == Init /\ [][Next]_vars

------------------------------------------------------------------------------
(* generateVulnPages: one goroutine per year, each running                  *)
(* generateVulnerabilityPages on vuln-list/nvd/<year>/ with the one output  *)
(* directory content/nvd, and a WaitGroup the caller waits on.  A goroutine *)
(* takes one step per file-system call.                                     *)

Years == 1..NumYears

\* The input files a year's directory is drawn from.
YearFiles == {BaseVuln, [BaseVuln EXCEPT !.ID = "CVE-2020-0002"]}

\* An output file of an earlier run, with text appended by hand.
EditedPost ==
  vulnerabilityPostTemplate(AddCWEInformation(ParseVulnerabilityJSONFile(BaseVuln), cweDir))
    \o <<NL, "m">>

\* A slip generateVulnPages could make: the goroutine is started uncounted.
WgAddMissing(n) == n

\* wg.Add(1), before the go statement.
WgAdd(n) == n + 1

\* The loop body of generateVulnPages for the year mainpc.i.
Spawn ==
  /\ mainpc.pc = "loop" /\ mainpc.i <= NumYears
  /\ wg' = WgAdd(wg)
  /\ workers' = [workers EXCEPT ![mainpc.i].pc = "loop", ![mainpc.i].spawned = @ + 1]
  /\ mainpc' = [mainpc EXCEPT !.i = @ + 1]
  /\ UNCHANGED <<call, gen, files, posts, idx, run, status, log, firstOut, manual, openedBy>>

\* wg.Wait() returns when the counter is zero, and generateVulnPages with it.
Wait ==
  /\ mainpc.pc = "loop" /\ mainpc.i > NumYears
  /\ wg = 0
  /\ mainpc' = [mainpc EXCEPT !.pc = "returned"]
  /\ UNCHANGED <<call, gen, files, posts, idx, run, status, log, firstOut, manual,
                 wg, workers, openedBy>>

\* Year y: the file is parsed and enriched and its output file opened.
WorkerOpen(y) ==
  LET w == workers[y]
  IN /\ w.pc = "loop" /\ w.idx <= Len(files[y])
     /\ LET bp == ParseVulnerabilityJSONFile(files[y][w.idx])
        IN IF bp.err
           THEN /\ workers' = [workers EXCEPT
                                 ![y].idx = AfterParseError(w.idx, Len(files[y]))]
                /\ UNCHANGED <<posts, openedBy>>
           ELSE LET name == OutputPath(nvdPostsDir, Str(bp.Title))
                IN /\ posts' = OpenFile(posts, name)
                   /\ openedBy' = [openedBy EXCEPT ![name] = @ \cup {y}]
                   /\ workers' = [workers EXCEPT ![y].pc = "opened", ![y].name = name]
     /\ UNCHANGED <<call, gen, files, idx, run, status, log, firstOut, manual, mainpc, wg>>

\* Year y: GetCustomContentFromMarkdown reads the file it has open.
WorkerReadCustom(y) ==
  LET w == workers[y]
      customContent == GetCustomContentFromMarkdown(posts, w.name)
  IN /\ w.pc = "opened"
     /\ workers' = [workers EXCEPT
                      ![y].custom = customContent,
                      ![y].pc = IF customContent # <<>> THEN "truncate" ELSE "write"]
     /\ UNCHANGED <<call, gen, files, posts, idx, run, status, log, firstOut, manual,
                    mainpc, wg, openedBy>>

\* Year y: os.Truncate, when custom content was found.
WorkerTruncate(y) ==
  LET w == workers[y]
  IN /\ w.pc = "truncate"
     /\ posts' = Truncate(posts, w.name)
     /\ workers' = [workers EXCEPT ![y].pc = "write"]
     /\ UNCHANGED <<call, gen, files, idx, run, status, log, firstOut, manual,
                    mainpc, wg, openedBy>>

\* Year y: the page is written through the handle and the handle closed.
WorkerWrite(y) ==
  LET w == workers[y]
      bp == AddCWEInformation(ParseVulnerabilityJSONFile(files[y][w.idx]), cweDir)
  IN /\ w.pc = "write"
     /\ posts' = [posts EXCEPT ![w.name] =
                    VulnerabilityPostToMarkdown(bp, ReadFile(posts, w.name), w.custom)]
     /\ workers' = [workers EXCEPT ![y].pc = "loop", ![y].idx = @ + 1,
                                   ![y].name = <<>>, ![y].custom = <<>>]
     /\ UNCHANGED <<call, gen, files, idx, run, status, log, firstOut, manual,
                    mainpc, wg, openedBy>>

\* Year y: generateVulnerabilityPages returns and the deferred wg.Done() runs.
WorkerDone(y) ==
  LET w == workers[y]
  IN /\ w.pc = "loop" /\ w.idx > Len(files[y])
     /\ workers' = [workers EXCEPT ![y].pc = "done"]
     /\ wg' = wg - 1
     /\ UNCHANGED <<call, gen, files, posts, idx, run, status, log, firstOut, manual,
                    mainpc, openedBy>>

InitFanOut ==
  /\ call = NoCall
  /\ gen = "years"
  /\ files \in [Years -> [1..MaxYearFiles -> YearFiles]]
  /\ posts \in {[p \in Paths |-> NoFile],
                [p \in Paths |-> IF p = OutputPath(nvdPostsDir, Str(BaseVuln.ID))
                                 THEN EditedPost ELSE NoFile]}
  /\ idx = 1
  /\ run = 1
  /\ status = "running"
  /\ log = <<>>
  /\ firstOut = [p \in Paths |-> NoFile]
  /\ manual = [p \in Paths |-> <<>>]
  /\ mainpc = [pc |-> "loop", i |-> 1]
  /\ wg = 0
  /\ workers = [y \in Years |->
                  [pc |-> "idle", idx |-> 1, name |-> <<>>, custom |-> <<>>, spawned |-> 0]]
  /\ openedBy = [p \in Paths |-> {}]

NextFanOut ==
  \/ Spawn
  \/ Wait
  \/ \E y \in Years : WorkerOpen(y)
  \/ \E y \in Years : WorkerReadCustom(y)
  \/ \E y \in Years : WorkerTruncate(y)
  \/ \E y \in Years : WorkerWrite(y)
  \/ \E y \in Years : WorkerDone(y)

SpecFanOut == InitFanOut /\ [][NextFanOut]_vars

------------------------------------------------------------------------------
(* GetCustomContentFromMarkdown on its own: called once on a file name of   *)
(* an output directory in which one file, content/nvd/CVE-2020-0001.md,     *)
(* is missing or holds any text of at most MaxLen tokens.                   *)

\* What a file is made of: a word, the two kinds of white space, the sentinel.
Alphabet == {"a", " ", NL, Marker}

FileContents == UNION {[1..n -> Alphabet] : n \in 0..MaxLen}

InitCustom ==
  /\ call = [pc |-> "entry", fileName |-> <<>>, ret |-> <<>>]
  /\ gen = "custom"
  /\ files = <<>>
  /\ \E b \in FileContents \cup {NoFile} :
       posts = [p \in Paths |-> IF p = OutputPath(nvdPostsDir, Str(BaseVuln.ID))
                                THEN b ELSE NoFile]
  /\ idx = 1
  /\ run = 1
  /\ status = "running"
  /\ log = <<>>
  /\ firstOut = [p \in Paths |-> NoFile]
  /\ manual = [p \in Paths |-> <<>>]
  /\ mainpc = [pc |-> "idle", i |-> 1]
  /\ wg = 0
  /\ workers = <<>>
  /\ openedBy = [p \in Paths |-> {}]

\* The call and its return.
CallGetCustomContent ==
  /\ call.pc = "entry"
  /\ \E fileName \in Paths :
       call' = [pc |-> "returned", fileName |-> fileName,
                ret |-> GetCustomContentFromMarkdown(posts, fileName)]
  /\ UNCHANGED <<gen, files, posts, idx, run, status, log, firstOut, manual, fanout>>

NextCustom == CallGetCustomContent

SpecCustom == InitCustom /\ [][NextCustom]_vars

------------------------------------------------------------------------------
(* What the claims are stated with. *)

\* The page generateVulnerabilityPages renders for input file f.
VulnPage(f) ==
  vulnerabilityPostTemplate(AddCWEInformation(ParseVulnerabilityJSONFile(f), cweDir))

\* The log entries of pass r that are iterations of the loop.
Iterations(r) == {i \in 1..Len(log) : log[i].run = r /\ log[i].file >= 1
                                       /\ log[i].file <= Len(Listing)}

\* The last thing that happened is an iteration that wrote its page.
JustWritten == log # <<>> /\ log[Len(log)].out = "written" /\ log[Len(log)].file <= Len(Listing)

LastFile == Listing[log[Len(log)].file]
LastPath == log[Len(log)].path

\* Path p was written by an iteration after text was appended to it by hand.
RegeneratedAfterEdit(p) ==
  \E i, j \in 1..Len(log) :
    /\ i < j
    /\ log[i].out = "edit" /\ log[i].path = p
    /\ log[j].out = "written" /\ log[j].path = p

\* C1 (as claimed): once an output file of the vulnerability generator that had
\* text appended by hand below the sentinel line has been regenerated, in this
\* and in every later run the file is a freshly rendered page followed by
\* content that holds the appended text (white space around it aside).
C1_AppendedTextPreserved ==
  gen = "vuln" =>
    \A p \in Paths :
      RegeneratedAfterEdit(p) =>
        \E i \in 1..Len(files) :
          /\ files[i].json
          /\ HasPrefix(posts[p], VulnPage(files[i]))
          /\ Contains(SubSeq(posts[p], Len(VulnPage(files[i])) + 1, Len(posts[p])),
                      TrimSpace(manual[p]))

\* C2 (as claimed): when a re-run of the vulnerability generator on the unchanged
\* input returns, with nothing added by hand and no file operation having
\* failed, every output file is what the first run left.
C2_RerunIsIdempotent ==
  (gen = "vuln" /\ run >= 2 /\ status = "done" /\ Undisturbed) => posts = firstOut

\* The iteration about to run is on a file ParseVulnerabilityJSONFile fails on.
AtCorruptFile ==
  /\ gen = "vuln" /\ status = "running" /\ idx <= Len(Listing)
  /\ ParseVulnerabilityJSONFile(Listing[idx]).err

\* Every file of the listing has been through the loop in the current pass,
\* and those that parse were written unless a file operation failed.
AllFilesProcessed ==
  \A k \in 1..Len(Listing) :
    \E i \in Iterations(run) :
      /\ log[i].file = k
      /\ IF ParseVulnerabilityJSONFile(Listing[k]).err
         THEN log[i].out = "parse-skip"
         ELSE log[i].out \in {"written", "open-skip", "write-skip"}
      /\ (Undisturbed /\ ~ParseVulnerabilityJSONFile(Listing[k]).err) => log[i].out = "written"

\* C3: in generateVulnerabilityPages the iteration on a file that fails to parse
\* creates and modifies no output file and moves on to the next file, and when
\* the pass returns every file of the listing has been processed, wherever the
\* corrupt file sits.
C3_CorruptFileSkipped ==
  /\ [][AtCorruptFile => (posts' = posts /\ idx' = idx + 1 /\ status' = status)]_vars
  /\ []((gen = "vuln" /\ status = "done") => AllFilesProcessed)

C3_Witness ==
  /\ gen = "vuln" /\ status = "done"
  /\ \E i, j \in Iterations(run) :
       /\ log[i].file < log[j].file
       /\ log[i].out = "parse-skip"
       /\ log[j].out = "written"

\* A file that is malformed or lacks the field its generator expects.
Malformed(f) ==
  CASE gen = "vuln" -> (~f.json \/ f.ID = "")
    [] gen = "rego" -> (~f.readable \/ ~f.package)
    [] OTHER -> (~f.readable \/ FindSubmatch(f.text).nil)

\* C4 (as claimed): in every generator a malformed file is skipped and the
\* batch goes on: the process does not stop on it and nothing is written for it.
C4_MalformedFileSkipped ==
  /\ status # "panic"
  /\ \A i \in Iterations(run) : Malformed(Listing[log[i].file]) => log[i].out = "parse-skip"

\* C5 (as claimed): in every generator a failure to create or write a record's
\* output file skips that record only; the process is never ended by it.
C5_WriteFailureSkipsRecord ==
  \A i \in 1..Len(log) :
    (log[i].file >= 1 /\ log[i].file <= Len(Listing)) => log[i].out # "fatal"

\* The CWE lookup of input file f is absent or cannot be decoded.
LookupMissing(f) == f.json /\ cweDir[f.CWEID].json # "ok"

EnrichmentHeadings ==
  {"#### Title", "#### Description", "#### Extended Description",
   "#### Common Consequences", "#### Potential Mitigations",
   "#### Related Attack Patterns"}

\* C6: for a record whose CWE lookup file is absent or cannot be decoded,
\* AddCWEInformation returns the record as parsed, the record is not skipped,
\* and the page written for it is the page of the record as parsed, which has
\* no enrichment section.
C6_EnrichmentBestEffort ==
  gen = "vuln" =>
    /\ \A i \in Iterations(run) :
         LookupMissing(Listing[log[i].file]) => log[i].out \notin {"parse-skip", "panic"}
    /\ (JustWritten /\ LookupMissing(LastFile)) =>
         LET bp == ParseVulnerabilityJSONFile(LastFile)
             page == vulnerabilityPostTemplate(bp)
         IN /\ AddCWEInformation(bp, cweDir) = bp
            /\ bp.Vulnerability.CWEInfo = EmptyWeakness
            /\ HasPrefix(posts[LastPath], page)
            /\ \A k \in 1..Len(page) : page[k] \notin EnrichmentHeadings

C6_Witness ==
  /\ gen = "vuln" /\ JustWritten
  /\ LastFile.CWEID = "CWE-89"
  /\ posts[LastPath] = vulnerabilityPostTemplate(ParseVulnerabilityJSONFile(LastFile))

\* The identifier of the record parsed from f, and the directory its page goes to.
Identifier(f) ==
  IF gen = "vuln" THEN Str(ParseVulnerabilityJSONFile(f).Title)
  ELSE ParseRegoPolicyFile(f).Title

PostsDir == IF gen = "vuln" THEN nvdPostsDir ELSE regoPostsDir

\* The iterations of the current pass whose file parsed, and those that wrote.
Parsed == {i \in Iterations(run) : log[i].out \in {"written", "open-skip", "write-skip"}}
Written == {i \in Iterations(run) : log[i].out = "written"}

\* A pass of the vulnerability or policy generator has returned and no file
\* operation failed in it.
CleanPassDone ==
  /\ gen \in {"vuln", "rego"} /\ status = "done"
  /\ Parsed = Written

\* C9 (as claimed): N successfully parsed records of a pass yield N distinct
\* output files.
C9_OneFilePerRecord ==
  CleanPassDone => Cardinality({log[i].path : i \in Written}) = Cardinality(Parsed)

\* C9 (amended): every parsed record is written to <output_dir>/<identifier>.md,
\* and a pass yields one output file per distinct identifier of its parsed
\* records: records that share an identifier (or have none) share a file.
C9_OneFilePerIdentifier ==
  gen \in {"vuln", "rego"} =>
    /\ \A i \in Parsed :
         log[i].path = <<PostsDir>> \o Identifier(Listing[log[i].file]) \o <<".md">>
    /\ CleanPassDone =>
         /\ Cardinality({log[i].path : i \in Written})
              = Cardinality({Identifier(Listing[log[i].file]) : i \in Parsed})
         /\ \A i \in Written : posts[log[i].path] # NoFile

C9_Witness ==
  /\ CleanPassDone
  /\ \E i, j \in Written :
       /\ i # j
       /\ log[i].path = log[j].path

\* The page holds value v as it is, or with its quotes and backslashes removed.
HoldsField(page, v) == Contains(page, v) \/ Contains(page, Remove(v, {Quote, Backslash}))

\* C10 (as claimed): the page written for a valid record holds the identifier,
\* the description, every reference URL, both dates and both CVSS vectors of the
\* input, altered at most by the removal of quotes and backslashes; with no
\* references the References heading has no list item under it.
C10_PageHoldsEveryField ==
  (gen = "vuln" /\ JustWritten) =>
    LET f == LastFile
        page == posts[LastPath]
    IN /\ HoldsField(page, Str(f.ID))
       /\ HoldsField(page, f.description)
       /\ \A k \in 1..Len(f.references) : HoldsField(page, f.references[k])
       /\ HoldsField(page, f.publishedDate)
       /\ HoldsField(page, f.lastModifiedDate)
       /\ HoldsField(page, Str(f.V2Vector))
       /\ HoldsField(page, Str(f.V3Vector))
       /\ f.references = <<>> => Contains(page, <<"### References", Marker>>)

\* C7 (as claimed): in generateVulnPages no output file is opened by the
\* goroutines of two years.
C7_WorkersWriteDisjointFiles ==
  \A p \in Paths : Cardinality(openedBy[p]) <= 1

\* The goroutines that were started and have not finished.
Running == {y \in Years : workers[y].pc \notin {"idle", "done"}}

\* C8: the WaitGroup counts every goroutine that is running, each year's
\* goroutine is started at most once, and when generateVulnPages has returned
\* every year's goroutine was started exactly once and has finished, having
\* gone through all files of its directory.
C8_ReturnsAfterAllWorkers ==
  gen = "years" =>
    /\ wg = Cardinality(Running)
    /\ \A y \in Years : workers[y].spawned <= 1
    /\ mainpc.pc = "returned" =>
         \A y \in Years :
           /\ workers[y].spawned = 1
           /\ workers[y].pc = "done"
           /\ workers[y].idx = Len(files[y]) + 1

C8_Witness ==
  /\ gen = "years" /\ mainpc.pc = "returned"
  /\ \A y \in Years : workers[y].pc = "done"
  /\ \E p \in Paths : posts[p] # NoFile

\* C11 (as claimed): once generateRegoPolicyPages or generateKubeHunterPages has
\* regenerated an output file to which text had been appended by hand below the
\* sentinel line, the regenerated file still holds the appended text (white
\* space around it aside).
C11_OtherGeneratorsPreserveAppendedText ==
  gen \in {"rego", "kube"} =>
    \A p \in Paths :
      RegeneratedAfterEdit(p) => Contains(posts[p], TrimSpace(manual[p]))

\* The text of s that follows the first occurrence of the sentinel; none when
\* the sentinel does not occur.
AfterFirstMarker(s) ==
  LET at == {i \in 1..Len(s) : s[i] = Marker}
  IN IF at = {} THEN <<>>
     ELSE SubSeq(s, (CHOOSE i \in at : \A j \in at : i <= j) + 1, Len(s))

\* C12 (as claimed): what GetCustomContentFromMarkdown returns for a file is
\* everything that follows the first sentinel of the file, later sentinels and
\* the text after them included (white space around it aside), and it is empty
\* exactly when the file is missing, has no sentinel, or has nothing but white
\* space after the first sentinel.
C12_EverythingAfterFirstMarker ==
  call.pc = "returned" =>
    LET b == posts[call.fileName]
        after == IF b = NoFile THEN <<>> ELSE TrimSpace(AfterFirstMarker(b))
    IN /\ call.ret = after
       /\ call.ret = <<>> <=>
            \/ b = NoFile
            \/ ~Contains(b, <<Marker>>)
            \/ TrimSpace(AfterFirstMarker(b)) = <<>>

\* C13 (as claimed): an iteration of generateVulnerabilityPages that writes its
\* record leaves in the output file exactly the freshly rendered page, followed
\* by a newline and the custom content taken from the file as it was when there
\* is any; nothing else of the file as it was is left, whatever it was.
C13_FileIsPagePlusCustomContent ==
  [][(gen = "vuln" /\ status = "running" /\ idx <= Len(Listing)
        /\ Len(log') = Len(log) + 1 /\ log'[Len(log')].out = "written")
      => LET p == log'[Len(log')].path
             customContent == GetCustomContentFromMarkdown(posts, p)
         IN posts'[p] = VulnPage(Listing[idx])
                          \o (IF customContent # <<>>
                              THEN <<NL>> \o customContent ELSE <<>>)]_vars

==============================================================================
